---------------------------- MODULE Spec2Model ----------------------------
(***************************************************************************)
(* Model of organic_scoring: the list-backed OrganicQueue and the          *)
(* OrganicScoringBase scheduler (start/stop, step counter, run loop and    *)
(* its annealed trigger delay).                                            *)
(*                                                                         *)
(* Numbers of seconds are rationals: a duration is kept as a numerator     *)
(* over the denominator trigger_scaling_factor, which is exact for the     *)
(* integer configurations drawn here.                                      *)
(***************************************************************************)
EXTENDS Integers, Sequences, FiniteSets, TLC

\* ---------------------------------------------------------------- bounds
MaxCap == 3           \* largest max_size of the queue on its own
MaxQueue == 2         \* largest max_size of a scheduler's queue
MaxStep == 3          \* largest value of the step counter
MaxFreq == 2          \* largest trigger_frequency and trigger_frequency_min
MaxScale == 2         \* largest trigger_scaling_factor
MaxSynth == 1         \* largest number of synthetic sources
MaxThreads == 2       \* thread objects that exist at one time
MaxElapsed == 1       \* largest timer_elapsed, in whole seconds
MaxBacklog == 100     \* largest queue size given to the trigger delay
PaceMaxFreq == 10     \* trigger delay on its own: largest frequency,
PaceMaxScale == 5     \*   scaling factor
PaceMaxMin == 3       \*   and minimum frequency

\* ---------------------------------------------------------------- values
Samples == {"s1", "s2", "s3"}
None == "None"
Synth == "synth"
Threads == 1..MaxThreads
\* Threads of the host that may call start() and stop(); Spec lets one of
\* them make the calls, one after the other.
Hosts == {"h1", "h2"}
SeqHosts == {"h1"}
Triggers == {"seconds", "steps"}
Entries == {"s1", "s2"}
\* Threads that call add() on the queue, and threads that call
\* increment_step(), when the calls are followed statement by statement.
Producers == {"p1", "p2"}
Steppers == {"i1", "i2"}

VARIABLES
    queue_class,            \* class of self._organic_queue
    max_size,               \* OrganicQueue.max_size
    queue,                  \* OrganicQueue._queue
    trigger,                \* "seconds" | "steps"
    trigger_frequency,
    trigger_min,
    trigger_scaling_factor,
    synth_dataset,          \* number of synthetic sources in the tuple
    should_exit,
    is_running,
    thread,                 \* self._thread: 0 is None, else a slot of Threads
    step_counter,
    lpc,                    \* per loop thread: where it stands in _run_loop
    sample,                 \* per loop thread: local `sample`
    is_organic_sample,      \* per loop thread: local `is_organic_sample`
    reference_done,         \* per loop thread: reference_task finished
    responses_done,         \* per loop thread: responses_task finished
    hpc,                    \* per calling thread: "idle" or blocked in join
    hjoin,                  \* per calling thread: the thread object it joins
    add_pc,                 \* per producer: where it stands in OrganicQueue.add
    add_arg,                \* per producer: the sample it adds
    sample_pc,              \* the consumer: where it stands in OrganicQueue.sample
    sample_idx,             \* the consumer: the index randint gave it
    step_lock,              \* self._step_lock: "free" or its holder
    inc_pc,                 \* per caller of increment_step: where it stands
    inc_tmp,                \* per caller of increment_step: the counter it read
    pace_tmp,               \* per loop thread: the counter _trigger_delay read
    pace_unit,              \* per loop thread: its dynamic_steps
    last                    \* the most recent call and what it returned

vars == <<queue_class, max_size, queue, trigger, trigger_frequency, trigger_min,
          trigger_scaling_factor, synth_dataset, should_exit, is_running,
          thread, step_counter, lpc, sample, is_organic_sample,
          reference_done, responses_done, hpc, hjoin, add_pc, add_arg,
          sample_pc, sample_idx, step_lock, inc_pc, inc_tmp, pace_tmp,
          pace_unit, last>>

config == <<queue_class, max_size, trigger, trigger_frequency, trigger_min,
            trigger_scaling_factor, synth_dataset>>
flags == <<should_exit, is_running, thread>>
locals == <<sample, is_organic_sample, reference_done, responses_done>>
qcalls == <<add_pc, add_arg, sample_pc, sample_idx>>
stepcalls == <<step_lock, inc_pc, inc_tmp, pace_tmp, pace_unit>>
callers == <<hpc, hjoin, qcalls, stepcalls>>

Max(a, b) == IF a >= b THEN a ELSE b

Ev(op, arg, ret, pre, num, den) ==
    [op |-> op, arg |-> arg, ret |-> ret, pre |-> pre, num |-> num, den |-> den]

\* ------------------------------------------------------------ OrganicQueue
\* The queue is the default OrganicQueue, whose size is a property, or a
\* queue class of the host that keeps the same list and has size as a method.
QueueClasses == {"OrganicQueue", "Custom"}

size(q) == Len(q)

\* self._organic_queue.size() as the scheduler writes it: the property of
\* OrganicQueue gives an int, and calling an int raises TypeError.
size_call(q) ==
    IF queue_class = "OrganicQueue"
    THEN [raised |-> TRUE, ret |-> "TypeError"]
    ELSE [raised |-> FALSE, ret |-> size(q)]

is_empty(q) == size(q) = 0

\* list.pop(i), i counted from 0: IndexError when i is out of range.
list_pop(q, i) ==
    IF 0 <= i /\ i < Len(q)
    THEN [raised |-> FALSE, ret |-> q[i + 1], idx |-> i,
          q |-> [j \in 1..(Len(q) - 1) |-> IF j <= i THEN q[j] ELSE q[j + 1]]]
    ELSE [raised |-> TRUE, ret |-> "IndexError", idx |-> i, q |-> q]

\* random.randint(a, b): any integer of a..b.
randint(a, b) == a..b

queue_add_no_evict(q, x) == Append(q, x)

queue_add_evict_newest(q, x) ==
    IF size(q) >= max_size
    THEN Append(list_pop(q, Len(q) - 1).q, x)
    ELSE Append(q, x)

\* OrganicQueue.add: the list after add(x).
queue_add(q, x) ==
    IF size(q) >= max_size
    THEN Append(list_pop(q, 0).q, x)
    ELSE Append(q, x)

queue_sample_skip_head(q) ==
    IF is_empty(q)
    THEN {[raised |-> FALSE, ret |-> None, idx |-> -1, q |-> q]}
    ELSE {list_pop(q, i) : i \in randint(1, size(q))}

queue_sample_unguarded(q) ==
    IF size(q) - 1 < 0
    THEN {[raised |-> TRUE, ret |-> "ValueError", idx |-> -1, q |-> q]}
    ELSE {list_pop(q, i) : i \in randint(0, size(q) - 1)}

\* OrganicQueue.sample: every outcome of sample() on the list q.
queue_sample(q) ==
    IF is_empty(q)
    THEN {[raised |-> FALSE, ret |-> None, idx |-> -1, q |-> q]}
    ELSE {list_pop(q, i) : i \in randint(0, size(q) - 1)}

\* --------------------------------------------------------- construction
\* No call of add, sample or increment_step is under way and the lock is free.
NoCallInProgress ==
    /\ add_pc = [p \in Producers |-> "idle"]
    /\ add_arg = [p \in Producers |-> None]
    /\ sample_pc = "idle"
    /\ sample_idx = 0
    /\ step_lock = "free"
    /\ inc_pc = [i \in Steppers |-> "idle"]
    /\ inc_tmp = [i \in Steppers |-> 0]
    /\ pace_tmp = [t \in Threads |-> 0]
    /\ pace_unit = [t \in Threads |-> 0]

\* OrganicQueue(max_size=ms) and OrganicScoringBase.__init__.
Construct(qc, ms, trg, f, mn, sf, ns) ==
    /\ queue_class = qc
    /\ max_size = ms
    /\ queue = <<>>
    /\ trigger = trg
    /\ trigger_frequency = f
    /\ trigger_min = mn
    /\ trigger_scaling_factor = sf
    /\ synth_dataset = ns
    /\ should_exit = FALSE
    /\ is_running = FALSE
    /\ thread = 0
    /\ step_counter = 0
    /\ lpc = [t \in Threads |-> "unborn"]
    /\ sample = [t \in Threads |-> None]
    /\ is_organic_sample = [t \in Threads |-> FALSE]
    /\ reference_done = [t \in Threads |-> FALSE]
    /\ responses_done = [t \in Threads |-> FALSE]
    /\ hpc = [h \in Hosts |-> "idle"]
    /\ hjoin = [h \in Hosts |-> 0]
    /\ NoCallInProgress
    /\ last = Ev("init", None, None, 0, 0, 1)

\* ------------------------------------------------------- producer side
\* A producer (the intake hook) calls queue.add(x).
Add(x) ==
    /\ queue' = queue_add(queue, x)
    /\ last' = Ev("add", x, None, size(queue), 0, 1)
    /\ UNCHANGED <<config, flags, step_counter, lpc, locals, callers>>

\* A direct call of queue.sample() on the queue object.
Sample ==
    \E r \in queue_sample(queue) :
        /\ queue' = r.q
        /\ last' = Ev("sample", None, r.ret, size(queue), r.idx, 1)
        /\ UNCHANGED <<config, flags, step_counter, lpc, locals, callers>>

\* ------------------------------------------------- the queue on its own
QueueInit ==
    \E ms \in 1..MaxCap : Construct("OrganicQueue", ms, "seconds", 1, 1, 1, 1)

QueueNext ==
    \/ \E x \in Samples : Add(x)
    \/ Sample

QueueSpec == QueueInit /\ [][QueueNext]_vars

\* ------------------------------------------------------------ scheduler
Dead == {"exited", "crashed"}
Alive(t) == lpc[t] \notin (Dead \cup {"unborn"})

\* A thread object no one runs or joins any more: its slot is reused by the
\* next threading.Thread(...).
FreeSlots == {t \in Threads : ~Alive(t) /\ \A h \in Hosts : hjoin[h] # t}
NewSlot == CHOOSE t \in FreeSlots : \A u \in FreeSlots : t <= u

Quiet == Ev("loop", None, None, 0, 0, 1)

\* The locals of one loop thread, as _run_loop has them before sampling.
ResetLocals(t) ==
    /\ sample' = [sample EXCEPT ![t] = None]
    /\ is_organic_sample' = [is_organic_sample EXCEPT ![t] = FALSE]
    /\ reference_done' = [reference_done EXCEPT ![t] = FALSE]
    /\ responses_done' = [responses_done EXCEPT ![t] = FALSE]

\* An exception leaves _run_loop: run_until_complete re-raises it, the event
\* loop is closed and the thread ends. Nothing else is written.
RaiseOf(t, exc) ==
    /\ lpc' = [lpc EXCEPT ![t] = "crashed"]
    /\ ResetLocals(t)
    /\ last' = Ev("raise", None, exc, 0, 0, 1)

\* An exception raised by a collaborator of the host.
Raise(t) == RaiseOf(t, "Exception")

\* start(), called by thread h.
Start(h) ==
    /\ hpc[h] = "idle"
    /\ IF ~is_running
       THEN /\ FreeSlots # {}
            /\ should_exit' = FALSE
            /\ is_running' = TRUE
            /\ thread' = NewSlot
            /\ lpc' = [lpc EXCEPT ![NewSlot] = "attach"]
            /\ last' = Ev("start", None, None, 1, IF thread = 0 THEN 0 ELSE 1, 1)
       ELSE /\ UNCHANGED <<flags, lpc>>
            /\ last' = Ev("start", None, None, 0, 0, 1)
    /\ UNCHANGED <<config, queue, step_counter, locals, callers>>

\* stop(), called by thread h, up to the call of join().
Stop(h) ==
    /\ hpc[h] = "idle"
    /\ IF is_running
       THEN /\ should_exit' = TRUE
            /\ is_running' = FALSE
            /\ hpc' = [hpc EXCEPT ![h] = "join"]
            /\ hjoin' = [hjoin EXCEPT ![h] = thread]
            /\ last' = Ev("stop", None, None, 1, 0, 1)
       ELSE /\ UNCHANGED <<should_exit, is_running, callers>>
            /\ last' = Ev("stop", None, None, 0, 0, 1)
    /\ UNCHANGED <<config, queue, thread, step_counter, lpc, locals, qcalls,
                   stepcalls>>

StopJoinNoWait(h) ==
    /\ hpc[h] = "join"
    /\ hpc' = [hpc EXCEPT ![h] = "idle"]
    /\ hjoin' = [hjoin EXCEPT ![h] = 0]
    /\ last' = Ev("stop_return", None, None, 0, 0, 1)
    /\ UNCHANGED <<config, queue, flags, step_counter, lpc, locals, qcalls,
                   stepcalls>>

\* self._thread.join() returns, and stop() with it.
StopJoin(h) ==
    /\ hpc[h] = "join"
    /\ lpc[hjoin[h]] \in Dead
    /\ hpc' = [hpc EXCEPT ![h] = "idle"]
    /\ hjoin' = [hjoin EXCEPT ![h] = 0]
    /\ last' = Ev("stop_return", None, None, 0, 0, 1)
    /\ UNCHANGED <<config, queue, flags, step_counter, lpc, locals, qcalls,
                   stepcalls>>

\* increment_step().
IncrementStep ==
    /\ step_counter < MaxStep
    /\ step_counter' = IF trigger = "steps" THEN step_counter + 1 ELSE step_counter
    /\ last' = Ev("increment_step", None, None, 0, 0, 1)
    /\ UNCHANGED <<config, queue, flags, lpc, locals, callers>>

SetStepAnyTrigger(n) ==
    /\ step_counter' = n
    /\ last' = Ev("set_step", None, None, 0, n, 1)
    /\ UNCHANGED <<config, queue, flags, lpc, locals, callers>>

\* set_step(n).
SetStep(n) ==
    /\ step_counter' = IF trigger = "steps" THEN n ELSE step_counter
    /\ last' = Ev("set_step", None, None, 0, n, 1)
    /\ UNCHANGED <<config, queue, flags, lpc, locals, callers>>

\* _on_organic_entry, which must add its sample to the queue.
OnOrganicEntry(x) ==
    /\ queue' = queue_add(queue, x)
    /\ last' = Ev("entry", x, None, 0, 0, 1)
    /\ UNCHANGED <<config, flags, step_counter, lpc, locals, callers>>

\* ------------------------------------------------------------ the run loop
Goto(t, where) == lpc' = [lpc EXCEPT ![t] = where]

\* _start_run_loop up to run_until_complete: the new thread attaches the
\* hooks to the axon and enters _run_loop.
AxonAttach(t) ==
    /\ lpc[t] = "attach"
    /\ Goto(t, "loop_head")
    /\ last' = Quiet
    /\ UNCHANGED <<config, queue, flags, step_counter, locals, callers>>

\* while not self._should_exit, and the test of the trigger kind.
LoopHead(t) ==
    /\ lpc[t] = "loop_head"
    /\ Goto(t, IF should_exit THEN "exited"
               ELSE IF trigger = "steps" THEN "wait_check" ELSE "sampling")
    /\ last' = Quiet
    /\ UNCHANGED <<config, queue, flags, step_counter, locals, callers>>

\* while self._step_counter < self._trigger_frequency.
WaitCheck(t) ==
    /\ lpc[t] = "wait_check"
    /\ Goto(t, IF step_counter < trigger_frequency THEN "wait_sleep" ELSE "sampling")
    /\ last' = Quiet
    /\ UNCHANGED <<config, queue, flags, step_counter, locals, callers>>

\* await asyncio.sleep(0.1) of the poll.
WaitSleep(t) ==
    /\ lpc[t] = "wait_sleep"
    /\ Goto(t, "wait_check")
    /\ last' = Quiet
    /\ UNCHANGED <<config, queue, flags, step_counter, locals, callers>>

UseOrganicNever(q) == FALSE

\* The test that sends the iteration to the queue.
UseOrganic(q) == ~is_empty(q)

\* is_organic_sample = False; if not self._organic_queue.is_empty().
SamplingCheck(t) ==
    /\ lpc[t] = "sampling"
    /\ Goto(t, IF UseOrganic(queue) THEN "sample_org" ELSE "sample_synth")
    /\ last' = Quiet
    /\ UNCHANGED <<config, queue, flags, step_counter, locals, callers>>

\* sample = self._organic_queue.sample(); is_organic_sample = True.
SampleOrganic(t) ==
    /\ lpc[t] = "sample_org"
    /\ \E r \in queue_sample(queue) :
         IF r.raised
         THEN RaiseOf(t, r.ret) /\ UNCHANGED queue
         ELSE /\ queue' = r.q
              /\ sample' = [sample EXCEPT ![t] = r.ret]
              /\ is_organic_sample' = [is_organic_sample EXCEPT ![t] = TRUE]
              /\ Goto(t, "subtasks")
              /\ last' = Ev("organic", None, r.ret, 0, 0, 1)
              /\ UNCHANGED <<reference_done, responses_done>>
    /\ UNCHANGED <<config, flags, step_counter, callers>>

\* sample = random.choice(self._synth_dataset).sample(): IndexError on an
\* empty tuple, and the source may raise.
SampleSynth(t) ==
    /\ lpc[t] = "sample_synth"
    /\ \/ /\ synth_dataset = 0
          /\ RaiseOf(t, "IndexError")
       \/ /\ \E k \in 1..synth_dataset : TRUE
          /\ \/ /\ sample' = [sample EXCEPT ![t] = Synth]
                /\ Goto(t, "subtasks")
                /\ last' = Ev("synthetic", None, Synth, 0, 0, 1)
                /\ UNCHANGED <<is_organic_sample, reference_done, responses_done>>
             \/ Raise(t)
    /\ UNCHANGED <<config, queue, flags, step_counter, callers>>

GenerateReferenceNoGather(t) ==
    /\ lpc[t] = "subtasks"
    /\ ~reference_done[t]
    /\ \/ /\ Goto(t, "rewards")
          /\ responses_done' = [responses_done EXCEPT ![t] = FALSE]
          /\ last' = Quiet
          /\ UNCHANGED <<sample, is_organic_sample, reference_done>>
       \/ Raise(t)
    /\ UNCHANGED <<config, queue, flags, step_counter, callers>>

\* The two tasks of asyncio.gather; the loop goes on when both are done.
GenerateReference(t) ==
    /\ lpc[t] = "subtasks"
    /\ ~reference_done[t]
    /\ \/ /\ IF responses_done[t]
             THEN /\ Goto(t, "rewards")
                  /\ reference_done' = reference_done
                  /\ responses_done' = [responses_done EXCEPT ![t] = FALSE]
             ELSE /\ reference_done' = [reference_done EXCEPT ![t] = TRUE]
                  /\ UNCHANGED <<lpc, responses_done>>
          /\ last' = Quiet
          /\ UNCHANGED <<sample, is_organic_sample>>
       \/ Raise(t)
    /\ UNCHANGED <<config, queue, flags, step_counter, callers>>

QueryMiners(t) ==
    /\ lpc[t] = "subtasks"
    /\ ~responses_done[t]
    /\ \/ /\ IF reference_done[t]
             THEN /\ Goto(t, "rewards")
                  /\ responses_done' = responses_done
                  /\ reference_done' = [reference_done EXCEPT ![t] = FALSE]
             ELSE /\ responses_done' = [responses_done EXCEPT ![t] = TRUE]
                  /\ UNCHANGED <<lpc, reference_done>>
          /\ last' = Quiet
          /\ UNCHANGED <<sample, is_organic_sample>>
       \/ Raise(t)
    /\ UNCHANGED <<config, queue, flags, step_counter, callers>>

\* rewards = await self._generate_rewards(sample, responses, reference).
GenerateRewards(t) ==
    /\ lpc[t] = "rewards"
    /\ \/ /\ Goto(t, "weights")
          /\ last' = Quiet
          /\ UNCHANGED locals
       \/ Raise(t)
    /\ UNCHANGED <<config, queue, flags, step_counter, callers>>

\* await self._set_weights(rewards).
SetWeights(t) ==
    /\ lpc[t] = "weights"
    /\ \/ /\ Goto(t, "log")
          /\ last' = Quiet
          /\ UNCHANGED locals
       \/ Raise(t)
    /\ UNCHANGED <<config, queue, flags, step_counter, callers>>

\* logs = {...}; await self._log_results(...). Building the dict calls
\* self._organic_queue.size(); when that raises, _log_results is not called.
LogResults(t) ==
    /\ lpc[t] = "log"
    /\ IF size_call(queue).raised
       THEN RaiseOf(t, size_call(queue).ret)
       ELSE \/ /\ Goto(t, "pacing")
               /\ last' = Ev("log", sample[t],
                             IF is_organic_sample[t] THEN "organic" ELSE "synthetic",
                             size_call(queue).ret, 0, 1)
               /\ UNCHANGED locals
            \/ RaiseOf(t, "log_results")
    /\ UNCHANGED <<config, queue, flags, step_counter, callers>>

\* ------------------------------------------------------- _trigger_delay
dynamic_frequency_unclamped(sz) ==
    trigger_frequency * trigger_scaling_factor - sz

\* max(frequency - (size / scaling_factor), min), in seconds: the numerator
\* over trigger_scaling_factor.
dynamic_frequency(sz) ==
    Max(trigger_frequency * trigger_scaling_factor - sz,
        trigger_min * trigger_scaling_factor)

\* max(dynamic_frequency - timer_elapsed, 0), numerator over the same
\* denominator; e is timer_elapsed in whole seconds.
sleep_duration(dyn, e) == Max(dyn - e * trigger_scaling_factor, 0)

dynamic_steps_truncated(sz) ==
    Max(trigger_frequency * trigger_scaling_factor - sz,
        trigger_min * trigger_scaling_factor) \div trigger_scaling_factor

\* max(frequency - (size // scaling_factor), min), in steps.
dynamic_steps(sz) ==
    Max(trigger_frequency - (sz \div trigger_scaling_factor), trigger_min)

decremented_unclamped(c, unit) == c - unit

\* max(self._step_counter - dynamic_steps, 0).
decremented(c, unit) == Max(c - unit, 0)

\* await self._trigger_delay(timer_elapsed): in seconds the thread goes to
\* sleep, in steps the counter is lowered under the lock. The iteration's
\* locals die here.
TriggerDelay(t) ==
    /\ lpc[t] = "pacing"
    /\ IF size_call(queue).raised
       THEN RaiseOf(t, size_call(queue).ret) /\ UNCHANGED step_counter
       ELSE /\ \/ /\ trigger = "seconds"
                  /\ \E e \in 0..MaxElapsed :
                       last' = Ev("pace", trigger, None,
                                  sleep_duration(dynamic_frequency(size_call(queue).ret), e),
                                  dynamic_frequency(size_call(queue).ret),
                                  trigger_scaling_factor)
                  /\ Goto(t, "sleeping")
                  /\ UNCHANGED step_counter
               \/ /\ trigger = "steps"
                  /\ step_counter' = decremented(step_counter,
                                                 dynamic_steps(size_call(queue).ret))
                  /\ last' = Ev("pace", trigger, None, step_counter,
                                dynamic_steps(size_call(queue).ret), 1)
                  /\ Goto(t, "loop_head")
            /\ ResetLocals(t)
    /\ UNCHANGED <<config, queue, flags, callers>>

\* await asyncio.sleep(sleep_duration) returns.
Sleeping(t) ==
    /\ lpc[t] = "sleeping"
    /\ Goto(t, "loop_head")
    /\ last' = Quiet
    /\ UNCHANGED <<config, queue, flags, step_counter, locals, callers>>

LoopStep(t) ==
    \/ AxonAttach(t)
    \/ LoopHead(t)
    \/ WaitCheck(t)
    \/ WaitSleep(t)
    \/ SamplingCheck(t)
    \/ SampleOrganic(t)
    \/ SampleSynth(t)
    \/ GenerateReference(t)
    \/ QueryMiners(t)
    \/ GenerateRewards(t)
    \/ SetWeights(t)
    \/ LogResults(t)
    \/ TriggerDelay(t)
    \/ Sleeping(t)

\* ------------------------------------ the queue under concurrent callers
\* add(x) and sample() followed statement by statement. OrganicQueue holds no
\* lock, so the statements of the calling threads interleave.

\* add, line 15: if self.size >= self.max_size.
AddCheck(p, x) ==
    /\ add_pc[p] = "idle"
    /\ add_pc' = [add_pc EXCEPT ![p] =
                     IF size(queue) >= max_size THEN "evict" ELSE "append"]
    /\ add_arg' = [add_arg EXCEPT ![p] = x]
    /\ last' = Quiet
    /\ UNCHANGED <<config, queue, flags, step_counter, lpc, locals, hpc, hjoin,
                   sample_pc, sample_idx, stepcalls>>

\* add, line 16: self._queue.pop(0); an IndexError ends the call.
AddEvict(p) ==
    /\ add_pc[p] = "evict"
    /\ IF list_pop(queue, 0).raised
       THEN /\ add_pc' = [add_pc EXCEPT ![p] = "idle"]
            /\ add_arg' = [add_arg EXCEPT ![p] = None]
            /\ last' = Ev("add", add_arg[p], list_pop(queue, 0).ret, size(queue), 0, 1)
            /\ UNCHANGED queue
       ELSE /\ queue' = list_pop(queue, 0).q
            /\ add_pc' = [add_pc EXCEPT ![p] = "append"]
            /\ last' = Quiet
            /\ UNCHANGED add_arg
    /\ UNCHANGED <<config, flags, step_counter, lpc, locals, hpc, hjoin,
                   sample_pc, sample_idx, stepcalls>>

\* add, line 17: self._queue.append(sample), and the call returns.
AddAppend(p) ==
    /\ add_pc[p] = "append"
    /\ queue' = Append(queue, add_arg[p])
    /\ add_pc' = [add_pc EXCEPT ![p] = "idle"]
    /\ add_arg' = [add_arg EXCEPT ![p] = None]
    /\ last' = Ev("add", add_arg[p], None, size(queue), 0, 1)
    /\ UNCHANGED <<config, flags, step_counter, lpc, locals, hpc, hjoin,
                   sample_pc, sample_idx, stepcalls>>

\* sample, lines 21-22: if self.is_empty(): return None.
SampleCheck ==
    /\ sample_pc = "idle"
    /\ IF is_empty(queue)
       THEN /\ last' = Ev("sample", None, None, size(queue), -1, 1)
            /\ UNCHANGED sample_pc
       ELSE /\ sample_pc' = "index"
            /\ last' = Quiet
    /\ UNCHANGED <<config, queue, flags, step_counter, lpc, locals, hpc, hjoin,
                   add_pc, add_arg, sample_idx, stepcalls>>

\* sample, line 23, the argument: random.randint(0, self.size - 1), a
\* ValueError when the range is empty.
SampleIndex ==
    /\ sample_pc = "index"
    /\ IF size(queue) - 1 < 0
       THEN /\ sample_pc' = "idle"
            /\ last' = Ev("sample", None, "ValueError", size(queue), -1, 1)
            /\ UNCHANGED sample_idx
       ELSE /\ \E i \in randint(0, size(queue) - 1) : sample_idx' = i
            /\ sample_pc' = "pop"
            /\ last' = Quiet
    /\ UNCHANGED <<config, queue, flags, step_counter, lpc, locals, hpc, hjoin,
                   add_pc, add_arg, stepcalls>>

\* sample, line 23, the call: return self._queue.pop(index).
SamplePop ==
    /\ sample_pc = "pop"
    /\ queue' = list_pop(queue, sample_idx).q
    /\ last' = Ev("sample", None, list_pop(queue, sample_idx).ret, size(queue),
                  sample_idx, 1)
    /\ sample_pc' = "idle"
    /\ sample_idx' = 0
    /\ UNCHANGED <<config, flags, step_counter, lpc, locals, hpc, hjoin,
                   add_pc, add_arg, stepcalls>>

\* Several producers and one consumer on one default queue.
QueueConcInit ==
    \E ms \in 1..MaxQueue : Construct("OrganicQueue", ms, "seconds", 1, 1, 1, 1)

QueueConcNext ==
    \/ \E p \in Producers, x \in Entries : AddCheck(p, x)
    \/ \E p \in Producers : AddEvict(p)
    \/ \E p \in Producers : AddAppend(p)
    \/ SampleCheck
    \/ SampleIndex
    \/ SamplePop

QueueConcSpec == QueueConcInit /\ [][QueueConcNext]_vars

\* ------------------------------------- the step counter under its lock
\* increment_step() and the decrement of _trigger_delay followed statement by
\* statement: the read and the write of self._step_counter are two steps, both
\* inside `with self._step_lock`.
LockNeverHeld(l) == TRUE

\* with self._step_lock: the lock is taken when no thread holds it.
CanAcquire(l) == l = "free"

\* increment_step: the lock is taken, the trigger is tested and the counter
\* is read.
IncLock(i) ==
    /\ inc_pc[i] = "idle"
    /\ CanAcquire(step_lock)
    /\ step_counter < MaxStep
    /\ step_lock' = i
    /\ inc_pc' = [inc_pc EXCEPT ![i] = "locked"]
    /\ inc_tmp' = [inc_tmp EXCEPT ![i] = IF trigger = "steps" THEN step_counter ELSE @]
    /\ last' = Quiet
    /\ UNCHANGED <<config, queue, flags, step_counter, lpc, locals, hpc, hjoin,
                   qcalls, pace_tmp, pace_unit>>

\* increment_step: the counter is written and the lock released.
IncStore(i) ==
    /\ inc_pc[i] = "locked"
    /\ step_counter' = IF trigger = "steps" THEN inc_tmp[i] + 1 ELSE step_counter
    /\ step_lock' = "free"
    /\ inc_pc' = [inc_pc EXCEPT ![i] = "idle"]
    /\ last' = Ev("increment_step", i, None, 0, 0, 1)
    /\ UNCHANGED <<config, queue, flags, lpc, locals, hpc, hjoin, qcalls,
                   inc_tmp, pace_tmp, pace_unit>>

\* _trigger_delay in steps: size and dynamic_steps are computed, the lock is
\* taken and the counter is read.
PaceLock(t) ==
    /\ lpc[t] = "pacing"
    /\ trigger = "steps"
    /\ ~size_call(queue).raised
    /\ CanAcquire(step_lock)
    /\ step_lock' = "loop"
    /\ pace_unit' = [pace_unit EXCEPT ![t] = dynamic_steps(size_call(queue).ret)]
    /\ pace_tmp' = [pace_tmp EXCEPT ![t] = step_counter]
    /\ Goto(t, "pace_store")
    /\ last' = Quiet
    /\ UNCHANGED <<config, queue, flags, step_counter, locals, hpc, hjoin,
                   qcalls, inc_pc, inc_tmp>>

\* _trigger_delay in steps: the counter is written and the lock released.
PaceStore(t) ==
    /\ lpc[t] = "pace_store"
    /\ step_counter' = decremented(pace_tmp[t], pace_unit[t])
    /\ step_lock' = "free"
    /\ Goto(t, "loop_head")
    /\ ResetLocals(t)
    /\ last' = Ev("pace", trigger, None, step_counter, pace_unit[t], 1)
    /\ UNCHANGED <<config, queue, flags, hpc, hjoin, qcalls, inc_pc, inc_tmp,
                   pace_tmp, pace_unit>>

\* A running scheduler in steps whose loop thread stands before
\* _trigger_delay, with any counter and backlog, and threads of the host that
\* call increment_step().
StepInit ==
    \E f \in 1..MaxFreq, mn \in {1, MaxFreq}, sf \in {1, MaxScale},
       n \in 0..MaxQueue, c \in 0..MaxStep :
        /\ queue_class = "Custom"
        /\ max_size = MaxQueue
        /\ queue = [i \in 1..n |-> "s1"]
        /\ trigger = "steps"
        /\ trigger_frequency = f
        /\ trigger_min = mn
        /\ trigger_scaling_factor = sf
        /\ synth_dataset = 1
        /\ should_exit = FALSE
        /\ is_running = TRUE
        /\ thread = 1
        /\ step_counter = c
        /\ lpc = [t \in Threads |-> IF t = 1 THEN "pacing" ELSE "unborn"]
        /\ sample = [t \in Threads |-> None]
        /\ is_organic_sample = [t \in Threads |-> FALSE]
        /\ reference_done = [t \in Threads |-> FALSE]
        /\ responses_done = [t \in Threads |-> FALSE]
        /\ hpc = [h \in Hosts |-> "idle"]
        /\ hjoin = [h \in Hosts |-> 0]
        /\ NoCallInProgress
        /\ last = Quiet

StepNext ==
    \/ \E i \in Steppers : IncLock(i)
    \/ \E i \in Steppers : IncStore(i)
    \/ \E t \in Threads : PaceLock(t)
    \/ \E t \in Threads : PaceStore(t)

StepSpec == StepInit /\ [][StepNext]_vars

\* ------------------------------------------------------ the whole program
\* A scheduler with a queue of either class, one thread of the host calling
\* start, stop, increment_step and set_step, producers adding samples. The
\* default queue is drawn with the seconds trigger only.
Init ==
    \E ms \in 1..MaxQueue, ns \in {0, MaxSynth} :
        \/ \E qc \in QueueClasses :
              Construct(qc, ms, "seconds", MaxFreq, 1, MaxScale, ns)
        \/ \E f \in 1..MaxFreq, mn \in {1, MaxFreq}, sf \in {1, MaxScale} :
              Construct("Custom", ms, "steps", f, mn, sf, ns)

Next ==
    \/ \E h \in SeqHosts : Start(h)
    \/ \E h \in SeqHosts : Stop(h)
    \/ \E h \in SeqHosts : StopJoin(h)
    \/ IncrementStep
    \/ \E n \in 0..MaxStep : SetStep(n)
    \/ \E x \in Entries : OnOrganicEntry(x)
    \/ \E t \in Threads : LoopStep(t)

Spec == Init /\ [][Next]_vars

\* The loop thread is scheduled as long as it can take a step (every call it
\* awaits returns or raises), and a join() whose thread has ended returns.
\* Nothing makes the host or a producer call anything.
Fairness ==
    /\ \A t \in Threads : WF_vars(LoopStep(t))
    /\ \A h \in SeqHosts : WF_vars(StopJoin(h))

FairSpec == Init /\ [][Next]_vars /\ Fairness

\* --------------------------------------------- several threads of the host
\* Any thread of Hosts calls start() and stop(); each call runs up to its
\* return, or up to the join() it blocks in. One producer value, a queue of
\* one place and callable size, one synthetic source.
ConcInit ==
    \/ Construct("Custom", 1, "seconds", 1, 1, 1, 1)
    \/ Construct("Custom", 1, "steps", 1, 1, 1, 1)

ConcNext ==
    \/ \E h \in Hosts : Start(h)
    \/ \E h \in Hosts : Stop(h)
    \/ \E h \in Hosts : StopJoin(h)
    \/ IncrementStep
    \/ OnOrganicEntry("s1")
    \/ \E t \in Threads : LoopStep(t)

ConcSpec == ConcInit /\ [][ConcNext]_vars

\* ------------------------------------------------- the constructor call
\* OrganicScoringBase(...) is about to run with any arguments of the bounded
\* sets, a trigger_scaling_factor of zero or below among them.
CtorInit ==
    \E qc \in QueueClasses, ms \in 1..MaxQueue, trg \in Triggers,
       f \in 1..MaxFreq, mn \in 1..MaxFreq, sf \in -1..MaxScale,
       ns \in {0, MaxSynth} :
        /\ queue_class = qc
        /\ max_size = ms
        /\ queue = <<>>
        /\ trigger = trg
        /\ trigger_frequency = f
        /\ trigger_min = mn
        /\ trigger_scaling_factor = sf
        /\ synth_dataset = ns
        /\ should_exit = FALSE
        /\ is_running = FALSE
        /\ thread = 0
        /\ step_counter = 0
        /\ lpc = [t \in Threads |-> "unborn"]
        /\ sample = [t \in Threads |-> None]
        /\ is_organic_sample = [t \in Threads |-> FALSE]
        /\ reference_done = [t \in Threads |-> FALSE]
        /\ responses_done = [t \in Threads |-> FALSE]
        /\ hpc = [h \in Hosts |-> "idle"]
        /\ hjoin = [h \in Hosts |-> 0]
        /\ NoCallInProgress
        /\ last = Ev("new", None, None, 0, 0, 1)

\* __init__ stores its arguments; its one check is
\* assert self._trigger_scaling_factor > 0.
OrganicScoringInit ==
    /\ last.op = "new"
    /\ last' = IF trigger_scaling_factor > 0
               THEN Ev("init", None, None, 0, 0, 1)
               ELSE Ev("init", None, "AssertionError", 0, 0, 1)
    /\ UNCHANGED <<config, queue, flags, step_counter, lpc, locals, callers>>

CtorNext == OrganicScoringInit

CtorSpec == CtorInit /\ [][CtorNext]_vars

\* ------------------------------------- the loop against concurrent producers
\* The loop thread takes its samples while producer threads are inside
\* add(), followed statement by statement; one thread of the host starts and
\* stops the scheduler. The loop's own sample() call is taken as one step.
LoopConcNext ==
    \/ \E h \in SeqHosts : Start(h)
    \/ \E h \in SeqHosts : Stop(h)
    \/ \E h \in SeqHosts : StopJoin(h)
    \/ \E p \in Producers, x \in Entries : AddCheck(p, x)
    \/ \E p \in Producers : AddEvict(p)
    \/ \E p \in Producers : AddAppend(p)
    \/ \E t \in Threads : LoopStep(t)

LoopConcSpec == ConcInit /\ [][LoopConcNext]_vars

\* ------------------------------------------- the trigger delay on its own
\* A running scheduler whose loop thread stands before _trigger_delay with
\* any backlog up to MaxBacklog in its queue.
PaceInit ==
    \E trg \in Triggers, f \in 1..PaceMaxFreq, mn \in 1..PaceMaxMin,
       sf \in 1..PaceMaxScale, n \in 0..MaxBacklog :
        /\ queue_class = "Custom"
        /\ max_size = MaxBacklog
        /\ queue = [i \in 1..n |-> "s1"]
        /\ trigger = trg
        /\ trigger_frequency = f
        /\ trigger_min = mn
        /\ trigger_scaling_factor = sf
        /\ synth_dataset = 1
        /\ should_exit = FALSE
        /\ is_running = TRUE
        /\ thread = 1
        /\ step_counter = IF trg = "steps" THEN f ELSE 0
        /\ lpc = [t \in Threads |-> IF t = 1 THEN "pacing" ELSE "unborn"]
        /\ sample = [t \in Threads |-> None]
        /\ is_organic_sample = [t \in Threads |-> FALSE]
        /\ reference_done = [t \in Threads |-> FALSE]
        /\ responses_done = [t \in Threads |-> FALSE]
        /\ hpc = [h \in Hosts |-> "idle"]
        /\ hjoin = [h \in Hosts |-> 0]
        /\ NoCallInProgress
        /\ last = Quiet

PaceNext == \E t \in Threads : TriggerDelay(t)

PaceSpec == PaceInit /\ [][PaceNext]_vars

\* ------------------------------------------------------ claims C1 .. C4
\* The list without its k-th element (k counted from 1).
Without(q, k) == SubSeq(q, 1, k - 1) \o SubSeq(q, k + 1, Len(q))

\* C1: for a queue of capacity max_size >= 1, after every add() and
\* sample() of any sequence of calls the queue holds at most max_size items.
C1_Capacity == Len(queue) <= max_size

\* An add() on a full queue has returned and the queue is still full.
C1_Witness ==
    /\ last.op = "add"
    /\ last.pre = max_size
    /\ Len(queue) = max_size

\* C2: add(x) on a full queue drops exactly the oldest item and appends x,
\* keeping the others in arrival order; add(x) on a queue with room only
\* appends x.
C2_FifoEviction ==
    [][last'.op = "add" =>
         queue' = IF Len(queue) >= max_size
                  THEN Append(Tail(queue), last'.arg)
                  ELSE Append(queue, last'.arg)]_vars

\* Three items went into a capacity-2 queue: the 2nd and 3rd remain.
C2_Witness ==
    /\ max_size = 2
    /\ last.op = "add"
    /\ last.arg = "s3"
    /\ last.pre = 2
    /\ queue = <<"s2", "s3">>

\* C3: sample() on a non-empty queue returns an item the queue held, the
\* size drops by exactly one, the rest keeps its order, and every position
\* of the queue can be the one that is popped.
C3_RandomPop ==
    /\ [][(last'.op = "sample" /\ queue # <<>>) =>
            /\ Len(queue') = Len(queue) - 1
            /\ \E k \in 1..Len(queue) :
                  /\ last'.ret = queue[k]
                  /\ last'.num = k - 1
                  /\ queue' = Without(queue, k)]_vars
    /\ [](\A k \in 1..Len(queue) : ENABLED (Sample /\ last'.num = k - 1))

\* A sample() popped the middle one of three items.
C3_Witness ==
    /\ last.op = "sample"
    /\ last.pre = 3
    /\ last.num = 1
    /\ last.ret \in Samples
    /\ Len(queue) = 2

\* C4: sample() on an empty queue returns None, raises nothing and leaves
\* the queue as it was.
C4_SampleEmpty ==
    [][(last'.op = "sample" /\ queue = <<>>) =>
         (last'.ret = None /\ queue' = queue)]_vars

\* A sample() on the empty queue has returned None.
C4_Witness ==
    /\ last.op = "sample"
    /\ last.pre = 0
    /\ last.ret = None
    /\ queue = <<>>

\* ----------------------------------------------------- claims C5 .. C10
\* C5: a failure raised by a collaborator during an iteration never ends the
\* run loop, and the loop ends only after stop() has been called: a loop
\* thread that has ended left through the while test with the stop flag set.
\* Stated for schedulers that have a synthetic source to draw from.
C5_Resilience ==
    synth_dataset > 0 =>
        \A t \in Threads : lpc[t] \in Dead => (lpc[t] = "exited" /\ should_exit)

\* C6: stop() returns only when no loop thread is anywhere in _run_loop; a
\* loop thread leaves only from the while test between two iterations, with
\* the stop flag set; and a start() made while the scheduler is stopped
\* launches a new loop thread with the stop flag cleared.
C6_StopJoin ==
    [][/\ \A h \in Hosts :
            (hpc[h] = "join" /\ hpc'[h] = "idle") =>
                \A t \in Threads : ~Alive(t)
       /\ \A t \in Threads :
            (lpc[t] # "exited" /\ lpc'[t] = "exited") =>
                (lpc[t] = "loop_head" /\ should_exit)
       /\ (last'.op = "start" /\ ~is_running) =>
            /\ is_running' /\ ~should_exit'
            /\ thread' \in Threads
            /\ ~Alive(thread')
            /\ lpc'[thread'] = "attach"]_vars

\* After a stop() has joined an earlier loop thread, a start() has launched
\* a new one.
C6_Witness ==
    /\ last.op = "start"
    /\ last.pre = 1
    /\ last.num = 1
    /\ is_running
    /\ lpc[thread] = "attach"
    /\ \A h \in Hosts : hpc[h] = "idle"

\* Calls made from outside the loop thread while a stop() is waiting.
OutsideCalls == {"increment_step", "set_step", "entry"}

\* C7: once stop() is called it returns, in every state of the loop, the
\* poll of the step counter included, even if no step is ever added: a
\* stop() that waits in join() returns without any further call from
\* outside having to come first.
C7_StopReturns ==
    \A h \in SeqHosts :
        (hpc[h] = "join") ~> (hpc[h] = "idle" \/ last.op \in OutsideCalls)

\* C8: an iteration whose sampling begins with a non-empty queue pops its
\* sample from the queue and marks it organic; a synthetic source is drawn
\* from only when the queue was found empty.
C8_OrganicPrecedence ==
    [][\A t \in Threads :
         /\ (lpc[t] = "sampling" /\ lpc'[t] # "sampling") =>
              /\ queue # <<>> => lpc'[t] = "sample_org"
              /\ lpc'[t] = "sample_synth" => queue = <<>>
         /\ (lpc[t] = "sample_org" /\ lpc'[t] # "sample_org") =>
              /\ lpc'[t] = "subtasks"
              /\ is_organic_sample'[t]
              /\ \E k \in 1..Len(queue) :
                    sample'[t] = queue[k] /\ queue' = Without(queue, k)
         /\ (lpc[t] = "sample_synth" /\ lpc'[t] = "subtasks") =>
              /\ sample'[t] = Synth
              /\ ~is_organic_sample'[t]
              /\ queue' = queue]_vars

\* An iteration holds a sample popped from the queue, marked organic.
C8_Witness ==
    /\ last.op = "organic"
    /\ \E t \in Threads :
         /\ lpc[t] = "subtasks"
         /\ is_organic_sample[t]
         /\ sample[t] \in Entries
         /\ sample[t] = last.ret

\* The pacing unit at backlog b, as a numerator over the denominator that
\* the last trigger delay used.
UnitAt(b) == IF trigger = "seconds" THEN dynamic_frequency(b) ELSE dynamic_steps(b)

\* C9: the pacing unit a trigger delay computes is never below the minimum
\* frequency, no larger than the unit of any smaller backlog and no smaller
\* than the unit of any larger backlog, in both trigger modes; with
\* frequency 10, scaling factor 5 and minimum 2 it is 10 at backlog 0, 6 at
\* backlog 20 and 2 at backlog 100.
C9_PacingMonotone ==
    last.op = "pace" =>
        /\ last.num >= trigger_min * last.den
        /\ last.num <= trigger_frequency * last.den \/ last.num = trigger_min * last.den
        /\ \A b \in 0..MaxBacklog :
             /\ b <= Len(queue) => UnitAt(b) >= last.num
             /\ b >= Len(queue) => UnitAt(b) <= last.num
        /\ (trigger_frequency = 10 /\ trigger_scaling_factor = 5 /\ trigger_min = 2) =>
             /\ Len(queue) = 0 => last.num = 10 * last.den
             /\ Len(queue) = 20 => last.num = 6 * last.den
             /\ Len(queue) = 100 => last.num = 2 * last.den

\* The example configuration has paced at backlog 20, in seconds.
C9_Witness ==
    /\ last.op = "pace"
    /\ trigger = "seconds"
    /\ trigger_frequency = 10 /\ trigger_scaling_factor = 5 /\ trigger_min = 2
    /\ Len(queue) = 20
    /\ last.num = 6 * last.den

\* The pacing step of loop thread t in steps mode.
PacesInSteps(t) == trigger = "steps" /\ lpc[t] = "pacing" /\ lpc'[t] # "pacing"

StepUnit == Max(trigger_frequency - (Len(queue) \div trigger_scaling_factor), trigger_min)

\* C10 as stated: in steps mode the pacing phase ends only once the counter
\* has reached the unit, and then subtracts exactly the unit; while the
\* counter is below the unit the loop waits and leaves the counter alone.
\* Stated for configurations whose minimum does not exceed the frequency.
C10_WaitDontClamp ==
    [][\A t \in Threads :
         (PacesInSteps(t) /\ trigger_min <= trigger_frequency) =>
            /\ step_counter >= StepUnit
            /\ step_counter' = step_counter - StepUnit]_vars

\* C10 amended: in steps mode the pacing phase subtracts exactly the unit when
\* the counter has reached it, so excess steps carry over; when the counter is
\* below the unit it sets the counter to 0 and goes on to the next iteration
\* without waiting.
C10_StepAccounting ==
    [][\A t \in Threads :
         PacesInSteps(t) =>
            /\ lpc'[t] = "loop_head"
            /\ step_counter' = IF step_counter >= StepUnit
                               THEN step_counter - StepUnit
                               ELSE 0]_vars

\* The pacing phase met a counter below the unit and cleared it.
C10_Witness ==
    /\ last.op = "pace"
    /\ last.arg = "steps"
    /\ trigger_min <= trigger_frequency
    /\ 0 < last.pre
    /\ last.pre < last.num
    /\ step_counter = 0

\* ------------------------------------------------------ claims C11 .. C20
\* C11: in steps mode the step counter is never negative, whatever the order
\* of the calls of increment_step(), of set_step(n) with n >= 0 and of the
\* decrements of the trigger delay.
C11_CounterNonNegative == step_counter \in Nat

\* The trigger delay subtracted a unit larger than the counter it met.
C11_Witness ==
    /\ last.op = "pace"
    /\ last.arg = "steps"
    /\ last.pre - last.num < 0
    /\ step_counter = 0

\* C12: an iteration that finds the queue empty and no synthetic source
\* configured is skipped without error: no collaborator is called and the
\* loop goes straight on to the trigger delay.
C12_EmptyWorkloadSkipped ==
    [][\A t \in Threads :
         (lpc[t] = "sample_synth" /\ synth_dataset = 0 /\ lpc'[t] # lpc[t]) =>
            /\ lpc'[t] = "pacing"
            /\ last'.op # "raise"]_vars

\* C13: with the default OrganicQueue, an iteration that has sampled, got
\* both sub-task results, its rewards and applied the weights hands one log
\* with the current queue size and the organic flag to _log_results and, when
\* that returns, enters the trigger delay.
C13_LogThenPacing ==
    [][\A t \in Threads :
         (queue_class = "OrganicQueue" /\ lpc[t] = "log" /\ lpc'[t] # "log") =>
            \/ /\ last'.op = "log"
               /\ last'.pre = Len(queue)
               /\ last'.ret = IF is_organic_sample[t] THEN "organic" ELSE "synthetic"
               /\ lpc'[t] = "pacing"
            \/ /\ last'.op = "raise"
               /\ last'.ret = "log_results"]_vars

\* C14: whatever the order and interleaving of the start() and stop() calls,
\* at most one loop thread is alive at any time, so that iterations never
\* overlap.
C14_OneLoopAlive == Cardinality({t \in Threads : Alive(t)}) <= 1

\* C15: construction fails whenever trigger_scaling_factor <= 0 or
\* trigger_frequency_min > trigger_frequency.
C15_ConstructionValidated ==
    (/\ last.op = "init"
     /\ \/ trigger_scaling_factor <= 0
        \/ trigger_min > trigger_frequency)
    => last.ret = "AssertionError"

\* C16: with the seconds trigger increment_step() and set_step(n) change
\* nothing and the counter stays at its initial 0; with the steps trigger
\* increment_step() changes only the counter, by exactly +1, and set_step(n)
\* changes only the counter, to n.
C16_StepCallsFrame ==
    [][/\ last'.op \in {"increment_step", "set_step"} =>
            UNCHANGED <<config, queue, flags, lpc, locals, callers>>
       /\ last'.op = "increment_step" =>
            IF trigger = "steps"
            THEN step_counter' = step_counter + 1
            ELSE step_counter = 0 /\ step_counter' = 0
       /\ last'.op = "set_step" =>
            IF trigger = "steps"
            THEN step_counter' = last'.num
            ELSE step_counter = 0 /\ step_counter' = 0]_vars

\* set_step(n) with n > 0 has returned under the seconds trigger.
C16_Witness ==
    /\ last.op = "set_step"
    /\ last.num > 0
    /\ trigger = "seconds"
    /\ step_counter = 0

\* C17: with several producers in add() and one consumer in sample() at the
\* same time the calls take effect one after the other: the queue never holds
\* more than max_size items and neither call raises.
C17_QueueSerialized ==
    /\ Len(queue) <= max_size
    /\ last.op \in {"add", "sample"} => last.ret \notin {"IndexError", "ValueError"}

\* max(frequency - backlog / scaling_factor, min) with exact division, as a
\* numerator over trigger_scaling_factor.
ExactUnit(b) ==
    Max(trigger_frequency * trigger_scaling_factor - b,
        trigger_min * trigger_scaling_factor)

\* n / d rounded up, d > 0.
Ceiling(n, d) == -((-n) \div d)

\* C18 as stated: in steps mode the pacing unit is the integer truncation of
\* max(frequency - backlog / scaling_factor, min), for every backlog.
C18_TruncatedExact ==
    (last.op = "pace" /\ last.arg = "steps") =>
        last.num = ExactUnit(Len(queue)) \div trigger_scaling_factor

\* C18 amended: in steps mode the quotient backlog / scaling_factor is floored
\* before it is subtracted, so the pacing unit is the exact value
\* max(frequency - backlog / scaling_factor, min) rounded up; it is the
\* truncation of that value when backlog is a multiple of scaling_factor.
C18_FlooredQuotient ==
    (last.op = "pace" /\ last.arg = "steps") =>
        /\ last.num = Ceiling(ExactUnit(Len(queue)), trigger_scaling_factor)
        /\ Len(queue) % trigger_scaling_factor = 0 =>
              last.num = ExactUnit(Len(queue)) \div trigger_scaling_factor

\* A trigger delay in steps whose backlog is no multiple of the scaling factor
\* and whose unit is above the truncated exact value.
C18_Witness ==
    /\ last.op = "pace"
    /\ last.arg = "steps"
    /\ Len(queue) % trigger_scaling_factor # 0
    /\ last.num > ExactUnit(Len(queue)) \div trigger_scaling_factor
    /\ last.num > trigger_min

Entering(t, where) == lpc[t] # where /\ lpc'[t] = where

\* C19: within one iteration _generate_rewards is called only after both
\* _generate_reference and _query_miners have completed, _set_weights only
\* after _generate_rewards has returned, and the log and the trigger delay
\* only after _set_weights has returned.
C19_IterationOrder ==
    [][\A t \in Threads :
         /\ Entering(t, "subtasks") => lpc[t] \in {"sample_org", "sample_synth"}
         /\ Entering(t, "rewards") =>
               /\ lpc[t] = "subtasks"
               /\ reference_done[t] # responses_done[t]
         /\ Entering(t, "weights") => lpc[t] = "rewards"
         /\ Entering(t, "log") => lpc[t] = "weights"
         /\ Entering(t, "pacing") => lpc[t] = "log" /\ last'.op = "log"]_vars

\* An iteration on an organic sample has gone through every phase and stands
\* before its trigger delay.
C19_Witness ==
    \E t \in Threads :
        /\ lpc[t] = "pacing"
        /\ is_organic_sample[t]
        /\ sample[t] \in Samples
        /\ last.op = "log"

\* C20: no update of the step counter is lost: with any number of threads
\* inside increment_step() and the loop thread inside the decrement of the
\* trigger delay, every increment adds 1 to, and the decrement subtracts its
\* unit from, the value the counter has when the update is written, so the
\* counter is the result of the updates taken in the order of their writes.
C20_NoLostUpdate ==
    [][/\ last'.op = "increment_step" => step_counter' = step_counter + 1
       /\ last'.op = "pace" =>
             step_counter' = Max(step_counter - last'.num, 0)]_vars

\* Two threads have incremented, the second on top of the first, and the
\* loop thread has made its decrement.
C20_Witness ==
    /\ last.op = "increment_step"
    /\ last.arg = "i2"
    /\ inc_tmp["i1"] >= 1
    /\ inc_tmp["i2"] = inc_tmp["i1"] + 1
    /\ step_counter = inc_tmp["i2"] + 1
    /\ \E t \in Threads : lpc[t] = "loop_head"
    /\ step_lock = "free"

\* ------------------------------------------------------ claims C21 .. C22
\* C21: whenever no start() or stop() call is in progress, _is_running is
\* true if and only if a loop thread is alive; so after the loop has ended
\* for any reason start() finds the flag false and starts a new loop.
C21_RunningIffAlive ==
    (\A h \in Hosts : hpc[h] = "idle") =>
        (is_running <=> \E t \in Threads : Alive(t))

\* C22: whenever an iteration marks its sample as organic, the sample is an
\* item the queue held and never None, under any interleaving of the loop's
\* is_empty() test and sample() call with the add() calls of concurrent
\* producers, evicting adds included.
C22_OrganicNeverNone ==
    \A t \in Threads : is_organic_sample[t] => sample[t] \in Samples

=============================================================================
